---- MODULE Spec2Model ----
(***************************************************************************)
(* Model of the AI-Powered Snowflake Data Model Generator.                 *)
(*                                                                         *)
(*   app.py             the Streamlit script: metadata load, the           *)
(*                      "Generate Data Model" handler, response parsing,   *)
(*                      the ER Diagram tab                                 *)
(*   llm_generator.py   generate_data_model and                            *)
(*                      validate_and_autocorrect_mermaid_code              *)
(*   snowflake_utils.py extract_table_metadata_cached (ttl cache)          *)
(*                                                                         *)
(* Text is a sequence of one-character strings, so that the regular        *)
(* expressions, strip(), lower(), replace() and the "in" test are modelled *)
(* by what they do on characters.  The character classes are those of      *)
(* Python 3 on str: Unicode white space, Unicode decimal digits, Unicode   *)
(* case folding.                                                           *)
(***************************************************************************)
EXTENDS Integers, Sequences, FiniteSets, TLC

VARIABLES
    pc,             \* position of the script / of the function under study
    shape,          \* the layout the generation model chose for its response
    llm_output,     \* app.py:100   text returned by generate_data_model
    parsed,         \* app.py:104-150 the five extracted sections
    mermaid_code,   \* app.py:107,164 diagram source held by the handler
    reply,          \* outcome of the validator's model call
    result,         \* app.py:157   what validate_and_autocorrect_mermaid_code did
    rendered,       \* app.py:173-188 diagram source handed to rendering
    genCalls,       \* model calls made by generate_data_model in this run
    valCalls,       \* calls of the validator in this run
    repairedBranch, \* app.py:163-165 was entered in this run
    uncaught,       \* exception that left the script (Streamlit shows a traceback)
    now,            \* clock, seconds
    cache,          \* st.cache_data entry of extract_table_metadata_cached
    dbVersion,      \* content of information_schema.columns
    dbUp,           \* the database can be reached
    queries,        \* bulk queries issued so far
    fetches,        \* calls of extract_table_metadata_cached so far
    returned,       \* data returned by the last call, None if it raised
    lastQueryAt,    \* time the result of the last successful query was stored
    lastFetch,      \* what was noted when the last call began
    df,             \* snowflake_utils.py:30 rows read by the call in progress
    openConns       \* connections opened and not closed

flowVars == <<pc, shape, llm_output, parsed, mermaid_code, reply, result,
              rendered, genCalls, valCalls, repairedBranch, uncaught>>
\* flowVars without the position
flowData == <<shape, llm_output, parsed, mermaid_code, reply, result,
              rendered, genCalls, valCalls, repairedBranch, uncaught>>
cacheVars == <<now, cache, dbVersion, dbUp, queries, fetches, returned,
               lastQueryAt, lastFetch, df, openConns>>
vars == <<pc, shape, llm_output, parsed, mermaid_code, reply, result,
          rendered, genCalls, valCalls, repairedBranch, uncaught,
          now, cache, dbVersion, dbUp, queries, fetches, returned,
          lastQueryAt, lastFetch, df, openConns>>

----------------------------------------------------------------------------
(* Optional values (Python None) and function outcomes.                    *)

None == [some |-> FALSE]
Some(v) == [some |-> TRUE, val |-> v]

Return(v) == [raised |-> FALSE, value |-> v]
Raise(e) == [raised |-> TRUE, exc |-> e]

Min(S) == CHOOSE x \in S : \A y \in S : x <= y
Max(S) == CHOOSE x \in S : \A y \in S : x >= y

----------------------------------------------------------------------------
(* Bounds of the model.                                                    *)

\* a validation reply is a concatenation of at most this many fragments
MaxReplyFragments == 4
\* the same, for the replies tried in the whole-handler specification
MaxFlowReplyFragments == 1
\* clock ticks, database changes and fetches the cache specification follows
MaxTicks == 6
MaxDbVersion == 2
MaxFetches == 4

----------------------------------------------------------------------------
(* Characters and the string operations the program uses.                  *)

\* A character is a one-character string when it is printable ASCII, "\n",
\* "\t", "\r" or "\f"; any other character is written by its code point,
\* "U+0085", and the backquote (a TLA+ string cannot hold one) is BQ.
BQ == "<backquote>"

LowerAlpha == <<"a","b","c","d","e","f","g","h","i","j","k","l","m","n","o","p","q","r","s","t","u","v","w","x","y","z">>
UpperAlpha == <<"A","B","C","D","E","F","G","H","I","J","K","L","M","N","O","P","Q","R","S","T","U","V","W","X","Y","Z">>

\* the capital of each ASCII small letter
AsciiUpper ==
    [c \in {LowerAlpha[i] : i \in 1..Len(LowerAlpha)} |->
        UpperAlpha[CHOOSE i \in 1..Len(LowerAlpha) : LowerAlpha[i] = c]]

\* the small letter of each ASCII capital
AsciiLower ==
    [c \in {UpperAlpha[i] : i \in 1..Len(UpperAlpha)} |->
        LowerAlpha[CHOOSE i \in 1..Len(UpperAlpha) : UpperAlpha[i] = c]]

\* re.IGNORECASE on a str pattern: besides the other case of the letter, the
\* characters whose case folding meets it (dotted capital I and dotless i
\* for i, long s for s, the Kelvin sign for k)
IgnoreCaseExtra ==
    [c \in DOMAIN AsciiUpper |->
        CASE c = "i" -> {"U+0130", "U+0131"}
          [] c = "s" -> {"U+017F"}
          [] c = "k" -> {"U+212A"}
          [] OTHER   -> {}]

\* the characters a pattern character p matches under re.IGNORECASE; p is a
\* character of one of the program's patterns, which are all ASCII
IgnoreCaseClass ==
    [p \in (DOMAIN AsciiUpper) \cup (DOMAIN AsciiLower) |->
        LET l == IF p \in DOMAIN AsciiLower THEN AsciiLower[p] ELSE p
        IN  {l, AsciiUpper[l]} \cup IgnoreCaseExtra[l]]

ignorecase_match(c, p) ==
    IF p \in DOMAIN IgnoreCaseClass THEN c \in IgnoreCaseClass[p] ELSE c = p

\* what str.strip() removes and the regex class \s matches on a str: the
\* characters for which str.isspace() holds
Spaces ==
    {
      "\t", "\n", "U+000B", "\f", "\r", "U+001C", "U+001D", "U+001E",
      "U+001F", " ", "U+0085", "U+00A0", "U+1680", "U+2000", "U+2001",
      "U+2002", "U+2003", "U+2004", "U+2005", "U+2006", "U+2007", "U+2008",
      "U+2009", "U+200A", "U+2028", "U+2029", "U+202F", "U+205F", "U+3000" }
IsSpace(c) == c \in Spaces

\* the regex class \d on a str: every Unicode decimal digit (category Nd)
DigitChars ==
    {
      "0", "1", "2", "3", "4", "5", "6", "7", "8", "9", "U+0660", "U+0661",
      "U+0662", "U+0663", "U+0664", "U+0665", "U+0666", "U+0667", "U+0668",
      "U+0669", "U+06F0", "U+06F1", "U+06F2", "U+06F3", "U+06F4", "U+06F5",
      "U+06F6", "U+06F7", "U+06F8", "U+06F9", "U+07C0", "U+07C1", "U+07C2",
      "U+07C3", "U+07C4", "U+07C5", "U+07C6", "U+07C7", "U+07C8", "U+07C9",
      "U+0966", "U+0967", "U+0968", "U+0969", "U+096A", "U+096B", "U+096C",
      "U+096D", "U+096E", "U+096F", "U+09E6", "U+09E7", "U+09E8", "U+09E9",
      "U+09EA", "U+09EB", "U+09EC", "U+09ED", "U+09EE", "U+09EF", "U+0A66",
      "U+0A67", "U+0A68", "U+0A69", "U+0A6A", "U+0A6B", "U+0A6C", "U+0A6D",
      "U+0A6E", "U+0A6F", "U+0AE6", "U+0AE7", "U+0AE8", "U+0AE9", "U+0AEA",
      "U+0AEB", "U+0AEC", "U+0AED", "U+0AEE", "U+0AEF", "U+0B66", "U+0B67",
      "U+0B68", "U+0B69", "U+0B6A", "U+0B6B", "U+0B6C", "U+0B6D", "U+0B6E",
      "U+0B6F", "U+0BE6", "U+0BE7", "U+0BE8", "U+0BE9", "U+0BEA", "U+0BEB",
      "U+0BEC", "U+0BED", "U+0BEE", "U+0BEF", "U+0C66", "U+0C67", "U+0C68",
      "U+0C69", "U+0C6A", "U+0C6B", "U+0C6C", "U+0C6D", "U+0C6E", "U+0C6F",
      "U+0CE6", "U+0CE7", "U+0CE8", "U+0CE9", "U+0CEA", "U+0CEB", "U+0CEC",
      "U+0CED", "U+0CEE", "U+0CEF", "U+0D66", "U+0D67", "U+0D68", "U+0D69",
      "U+0D6A", "U+0D6B", "U+0D6C", "U+0D6D", "U+0D6E", "U+0D6F", "U+0DE6",
      "U+0DE7", "U+0DE8", "U+0DE9", "U+0DEA", "U+0DEB", "U+0DEC", "U+0DED",
      "U+0DEE", "U+0DEF", "U+0E50", "U+0E51", "U+0E52", "U+0E53", "U+0E54",
      "U+0E55", "U+0E56", "U+0E57", "U+0E58", "U+0E59", "U+0ED0", "U+0ED1",
      "U+0ED2", "U+0ED3", "U+0ED4", "U+0ED5", "U+0ED6", "U+0ED7", "U+0ED8",
      "U+0ED9", "U+0F20", "U+0F21", "U+0F22", "U+0F23", "U+0F24", "U+0F25",
      "U+0F26", "U+0F27", "U+0F28", "U+0F29", "U+1040", "U+1041", "U+1042",
      "U+1043", "U+1044", "U+1045", "U+1046", "U+1047", "U+1048", "U+1049",
      "U+1090", "U+1091", "U+1092", "U+1093", "U+1094", "U+1095", "U+1096",
      "U+1097", "U+1098", "U+1099", "U+17E0", "U+17E1", "U+17E2", "U+17E3",
      "U+17E4", "U+17E5", "U+17E6", "U+17E7", "U+17E8", "U+17E9", "U+1810",
      "U+1811", "U+1812", "U+1813", "U+1814", "U+1815", "U+1816", "U+1817",
      "U+1818", "U+1819", "U+1946", "U+1947", "U+1948", "U+1949", "U+194A",
      "U+194B", "U+194C", "U+194D", "U+194E", "U+194F", "U+19D0", "U+19D1",
      "U+19D2", "U+19D3", "U+19D4", "U+19D5", "U+19D6", "U+19D7", "U+19D8",
      "U+19D9", "U+1A80", "U+1A81", "U+1A82", "U+1A83", "U+1A84", "U+1A85",
      "U+1A86", "U+1A87", "U+1A88", "U+1A89", "U+1A90", "U+1A91", "U+1A92",
      "U+1A93", "U+1A94", "U+1A95", "U+1A96", "U+1A97", "U+1A98", "U+1A99",
      "U+1B50", "U+1B51", "U+1B52", "U+1B53", "U+1B54", "U+1B55", "U+1B56",
      "U+1B57", "U+1B58", "U+1B59", "U+1BB0", "U+1BB1", "U+1BB2", "U+1BB3",
      "U+1BB4", "U+1BB5", "U+1BB6", "U+1BB7", "U+1BB8", "U+1BB9", "U+1C40",
      "U+1C41", "U+1C42", "U+1C43", "U+1C44", "U+1C45", "U+1C46", "U+1C47",
      "U+1C48", "U+1C49", "U+1C50", "U+1C51", "U+1C52", "U+1C53", "U+1C54",
      "U+1C55", "U+1C56", "U+1C57", "U+1C58", "U+1C59", "U+A620", "U+A621",
      "U+A622", "U+A623", "U+A624", "U+A625", "U+A626", "U+A627", "U+A628",
      "U+A629", "U+A8D0", "U+A8D1", "U+A8D2", "U+A8D3", "U+A8D4", "U+A8D5",
      "U+A8D6", "U+A8D7", "U+A8D8", "U+A8D9", "U+A900", "U+A901", "U+A902",
      "U+A903", "U+A904", "U+A905", "U+A906", "U+A907", "U+A908", "U+A909",
      "U+A9D0", "U+A9D1", "U+A9D2", "U+A9D3", "U+A9D4", "U+A9D5", "U+A9D6",
      "U+A9D7", "U+A9D8", "U+A9D9", "U+A9F0", "U+A9F1", "U+A9F2", "U+A9F3",
      "U+A9F4", "U+A9F5", "U+A9F6", "U+A9F7", "U+A9F8", "U+A9F9", "U+AA50",
      "U+AA51", "U+AA52", "U+AA53", "U+AA54", "U+AA55", "U+AA56", "U+AA57",
      "U+AA58", "U+AA59", "U+ABF0", "U+ABF1", "U+ABF2", "U+ABF3", "U+ABF4",
      "U+ABF5", "U+ABF6", "U+ABF7", "U+ABF8", "U+ABF9", "U+FF10", "U+FF11",
      "U+FF12", "U+FF13", "U+FF14", "U+FF15", "U+FF16", "U+FF17", "U+FF18",
      "U+FF19", "U+104A0", "U+104A1", "U+104A2", "U+104A3", "U+104A4",
      "U+104A5", "U+104A6", "U+104A7", "U+104A8", "U+104A9", "U+10D30",
      "U+10D31", "U+10D32", "U+10D33", "U+10D34", "U+10D35", "U+10D36",
      "U+10D37", "U+10D38", "U+10D39", "U+11066", "U+11067", "U+11068",
      "U+11069", "U+1106A", "U+1106B", "U+1106C", "U+1106D", "U+1106E",
      "U+1106F", "U+110F0", "U+110F1", "U+110F2", "U+110F3", "U+110F4",
      "U+110F5", "U+110F6", "U+110F7", "U+110F8", "U+110F9", "U+11136",
      "U+11137", "U+11138", "U+11139", "U+1113A", "U+1113B", "U+1113C",
      "U+1113D", "U+1113E", "U+1113F", "U+111D0", "U+111D1", "U+111D2",
      "U+111D3", "U+111D4", "U+111D5", "U+111D6", "U+111D7", "U+111D8",
      "U+111D9", "U+112F0", "U+112F1", "U+112F2", "U+112F3", "U+112F4",
      "U+112F5", "U+112F6", "U+112F7", "U+112F8", "U+112F9", "U+11450",
      "U+11451", "U+11452", "U+11453", "U+11454", "U+11455", "U+11456",
      "U+11457", "U+11458", "U+11459", "U+114D0", "U+114D1", "U+114D2",
      "U+114D3", "U+114D4", "U+114D5", "U+114D6", "U+114D7", "U+114D8",
      "U+114D9", "U+11650", "U+11651", "U+11652", "U+11653", "U+11654",
      "U+11655", "U+11656", "U+11657", "U+11658", "U+11659", "U+116C0",
      "U+116C1", "U+116C2", "U+116C3", "U+116C4", "U+116C5", "U+116C6",
      "U+116C7", "U+116C8", "U+116C9", "U+11730", "U+11731", "U+11732",
      "U+11733", "U+11734", "U+11735", "U+11736", "U+11737", "U+11738",
      "U+11739", "U+118E0", "U+118E1", "U+118E2", "U+118E3", "U+118E4",
      "U+118E5", "U+118E6", "U+118E7", "U+118E8", "U+118E9", "U+11950",
      "U+11951", "U+11952", "U+11953", "U+11954", "U+11955", "U+11956",
      "U+11957", "U+11958", "U+11959", "U+11C50", "U+11C51", "U+11C52",
      "U+11C53", "U+11C54", "U+11C55", "U+11C56", "U+11C57", "U+11C58",
      "U+11C59", "U+11D50", "U+11D51", "U+11D52", "U+11D53", "U+11D54",
      "U+11D55", "U+11D56", "U+11D57", "U+11D58", "U+11D59", "U+11DA0",
      "U+11DA1", "U+11DA2", "U+11DA3", "U+11DA4", "U+11DA5", "U+11DA6",
      "U+11DA7", "U+11DA8", "U+11DA9", "U+16A60", "U+16A61", "U+16A62",
      "U+16A63", "U+16A64", "U+16A65", "U+16A66", "U+16A67", "U+16A68",
      "U+16A69", "U+16AC0", "U+16AC1", "U+16AC2", "U+16AC3", "U+16AC4",
      "U+16AC5", "U+16AC6", "U+16AC7", "U+16AC8", "U+16AC9", "U+16B50",
      "U+16B51", "U+16B52", "U+16B53", "U+16B54", "U+16B55", "U+16B56",
      "U+16B57", "U+16B58", "U+16B59", "U+1D7CE", "U+1D7CF", "U+1D7D0",
      "U+1D7D1", "U+1D7D2", "U+1D7D3", "U+1D7D4", "U+1D7D5", "U+1D7D6",
      "U+1D7D7", "U+1D7D8", "U+1D7D9", "U+1D7DA", "U+1D7DB", "U+1D7DC",
      "U+1D7DD", "U+1D7DE", "U+1D7DF", "U+1D7E0", "U+1D7E1", "U+1D7E2",
      "U+1D7E3", "U+1D7E4", "U+1D7E5", "U+1D7E6", "U+1D7E7", "U+1D7E8",
      "U+1D7E9", "U+1D7EA", "U+1D7EB", "U+1D7EC", "U+1D7ED", "U+1D7EE",
      "U+1D7EF", "U+1D7F0", "U+1D7F1", "U+1D7F2", "U+1D7F3", "U+1D7F4",
      "U+1D7F5", "U+1D7F6", "U+1D7F7", "U+1D7F8", "U+1D7F9", "U+1D7FA",
      "U+1D7FB", "U+1D7FC", "U+1D7FD", "U+1D7FE", "U+1D7FF", "U+1E140",
      "U+1E141", "U+1E142", "U+1E143", "U+1E144", "U+1E145", "U+1E146",
      "U+1E147", "U+1E148", "U+1E149", "U+1E2F0", "U+1E2F1", "U+1E2F2",
      "U+1E2F3", "U+1E2F4", "U+1E2F5", "U+1E2F6", "U+1E2F7", "U+1E2F8",
      "U+1E2F9", "U+1E950", "U+1E951", "U+1E952", "U+1E953", "U+1E954",
      "U+1E955", "U+1E956", "U+1E957", "U+1E958", "U+1E959", "U+1FBF0",
      "U+1FBF1", "U+1FBF2", "U+1FBF3", "U+1FBF4", "U+1FBF5", "U+1FBF6",
      "U+1FBF7", "U+1FBF8", "U+1FBF9" }

strip(s) ==
    LET keep == {i \in 1..Len(s) : ~IsSpace(s[i])}
    IN  IF keep = {} THEN <<>> ELSE SubSeq(s, Min(keep), Max(keep))

\* the literal p matches in s at position i (ic: re.IGNORECASE)
MatchAt(s, i, p, ic) ==
    /\ i >= 1
    /\ i + Len(p) - 1 <= Len(s)
    /\ \A k \in 1..Len(p) :
          IF ic THEN ignorecase_match(s[i + k - 1], p[k])
                ELSE s[i + k - 1] = p[k]

\* leftmost position >= start where the literal p occurs in s, 0 if none
find(s, p, start, ic) ==
    LET hits == {i \in start..(Len(s) - Len(p) + 1) : MatchAt(s, i, p, ic)}
    IN  IF hits = {} THEN 0 ELSE Min(hits)

Fence == <<BQ,BQ,BQ>>
TagMermaid == <<"m","e","r","m","a","i","d">>
TagSql == <<"s","q","l">>
Valid == <<"v","a","l","i","d">>

\* the characters c for which c.lower() is the letter x of "valid"
LowersTo == [x \in {Valid[k] : k \in 1..Len(Valid)} |-> {x, AsciiUpper[x]}]

\* "valid" in text.lower()   (llm_generator.py:61)
\* str.lower() maps a text character by character (a character may become
\* two).  The characters whose lower case holds a letter of "valid" are the
\* five letters, their capitals, and U+0130, which becomes "i" followed by
\* U+0307: that "i" is never followed by "d".  So the lowered text holds
\* "valid" exactly where five consecutive characters of the text are those
\* letters in either case.
valid_in_lower(text) ==
    \E i \in 1..(Len(text) - Len(Valid) + 1) :
        /\ text[i] \in LowersTo[Valid[1]]
        /\ \A k \in 2..Len(Valid) : text[i + k - 1] \in LowersTo[Valid[k]]

NoMatch == [matched |-> FALSE]

\* re.search(r'[fence]<tag>\n(.*?)[fence]', text, re.DOTALL [| re.IGNORECASE]):
\* the leftmost opening fence that is followed by a closing fence, and the
\* shortest body (.*? is lazy, DOTALL lets it cross lines).
search_fenced(text, tag, ic) ==
    LET open == Fence \o tag \o <<"\n">>
        i == find(text, open, 1, ic)
        j == IF i = 0 THEN 0 ELSE find(text, Fence, i + Len(open), ic)
    IN  IF i = 0 \/ j = 0 THEN NoMatch
        ELSE [matched |-> TRUE, group1 |-> SubSeq(text, i + Len(open), j - 1)]

----------------------------------------------------------------------------
(* llm_generator.py: the validator.                                        *)

CouldNotExtract == "Could not extract valid Mermaid code."

\* A reply of the model call made by the validator:
\*   kind "ok"          generate_content returned and response.text is `text`
\*   kind "call_raises" generate_content raised an Exception, str(e) = err
\*   kind "text_raises" response.text raised an Exception, str(e) = err
OkReply(t) == [kind |-> "ok", text |-> t]
FailedReply(k, e) == [kind |-> k, err |-> e]

\* classify_response with the two tests in the other order
classify_response_ValidFirst(code, text) ==
    LET response_text == strip(text)
        match == search_fenced(response_text, TagMermaid, FALSE)
    IN  IF valid_in_lower(response_text)
        THEN <<TRUE, code, None>>
        ELSE IF match.matched
             THEN <<TRUE, Some(strip(match.group1)), None>>
             ELSE <<FALSE, None, Some(CouldNotExtract)>>

\* classify_response reporting a returned block as "was invalid, repaired"
classify_response_RepairIsInvalid(code, text) ==
    LET response_text == strip(text)
        match == search_fenced(response_text, TagMermaid, FALSE)
    IN  IF match.matched
        THEN <<FALSE, Some(strip(match.group1)), None>>
        ELSE IF valid_in_lower(response_text)
             THEN <<TRUE, code, None>>
             ELSE <<FALSE, None, Some(CouldNotExtract)>>

\* the body of the try block once response.text has been read
classify_response(code, text) ==
    LET response_text == strip(text)
        match == search_fenced(response_text, TagMermaid, FALSE)
    IN  IF match.matched
        THEN <<TRUE, Some(strip(match.group1)), None>>
        ELSE IF valid_in_lower(response_text)
             THEN <<TRUE, code, None>>
             ELSE <<FALSE, None, Some(CouldNotExtract)>>

\* the validator with only the model call inside the try
validate_TextOutsideTry(code, r) ==
    IF r.kind = "ok"
    THEN Return(classify_response(code, r.text))
    ELSE IF r.kind = "call_raises"
         THEN Return(<<FALSE, None, Some(r.err)>>)
         ELSE Raise(r.err)

validate_and_autocorrect_mermaid_code(code, r) ==
    IF r.kind = "ok"
    THEN Return(classify_response(code, r.text))
    ELSE \* except Exception as e: both statements are inside the try
         Return(<<FALSE, None, Some(r.err)>>)

\* app.py:46-48
extract_mermaid_code(text) ==
    LET match == search_fenced(text, TagMermaid, TRUE)
    IN  IF match.matched THEN Some(strip(match.group1)) ELSE None

----------------------------------------------------------------------------
(* Inputs.                                                                 *)

RECURSIVE Texts(_, _)
\* all concatenations of at most n fragments
Texts(frags, n) ==
    IF n = 0 THEN {<<>>}
    ELSE LET shorter == Texts(frags, n - 1)
         IN  shorter \cup {t \o f : t \in shorter, f \in frags}

ReplyFragments ==
    { <<BQ,BQ,BQ,"m","e","r","m","a","i","d","\n">>, <<BQ,BQ,BQ,"M","E","R","M","A","I","D","\n">>, <<BQ,BQ,BQ,"m","e","r","m","a","U+0131","d","\n">>, <<BQ,BQ,BQ>>,
      <<"e","r","D","i","a","g","r","a","m">>, <<"v","a","l","i","d">>, <<"V","A","L","I","D">>, <<"V","A","L","U+0130","D">>, <<"i","n">>,
      <<"U+00A0"," ","\r","\n">> }

ErrorTexts == {"timeout", ""}

FailedReplies ==
    {FailedReply(k, e) : k \in {"call_raises", "text_raises"}, e \in ErrorTexts}

Replies(n) == {OkReply(t) : t \in Texts(ReplyFragments, n)} \cup FailedReplies

DiagramSources == { <<"e","r","D","i","a","g","r","a","m">>, <<"e","r","D","i","a","g","r","a","m","\n"," ","A"," ","{">> }

NoResult == [raised |-> FALSE, pending |-> TRUE]
NoShape == [sections |-> 0]
NoParse == [done |-> FALSE]

FlowIdle ==
    /\ shape = NoShape
    /\ llm_output = None
    /\ parsed = NoParse
    /\ mermaid_code = None
    /\ reply = None
    /\ result = NoResult
    /\ rendered = None
    /\ genCalls = 0
    /\ valCalls = 0
    /\ repairedBranch = FALSE
    /\ uncaught = None

CacheIdle ==
    /\ now = 0
    /\ cache = None
    /\ dbVersion = 0
    /\ dbUp = TRUE
    /\ queries = 0
    /\ fetches = 0
    /\ returned = None
    /\ lastQueryAt = None
    /\ lastFetch = None
    /\ df = None
    /\ openConns = 0

----------------------------------------------------------------------------
(* app.py:104-150: the response parser.                                    *)

\* first index >= i whose character is not in class (Len(s) + 1 if none):
\* where a greedy character-class repetition such as \s* or \d* stops
SkipWhile(s, i, class) ==
    Min({k \in i..(Len(s) + 1) : k = Len(s) + 1 \/ s[k] \notin class})

RECURSIVE replace_with_empty(_, _)
\* str.replace(old, ""): every non-overlapping occurrence, left to right
replace_with_empty(s, old) ==
    LET i == find(s, old, 1, FALSE)
    IN  IF i = 0 THEN s
        ELSE SubSeq(s, 1, i - 1)
             \o replace_with_empty(SubSeq(s, i + Len(old), Len(s)), old)

\* re.split(r'[fence]', text)[0]
before_first_fence(text) ==
    LET i == find(text, Fence, 1, FALSE)
    IN  IF i = 0 THEN text ELSE SubSeq(text, 1, i - 1)

\* app.py:104-105
extract_summary(text) ==
    strip(replace_with_empty(
              replace_with_empty(strip(before_first_fence(text)), <<"E","R","D"," ","D","i","a","g","r","a","m">>),
              <<"E","R"," ","D","i","a","g","r","a","m">>))

\* app.py:108-109
extract_sql_code(text) ==
    LET sql_match == search_fenced(text, TagSql, TRUE)
    IN  IF sql_match.matched THEN Some(strip(sql_match.group1)) ELSE None

\* The tail  \s*\n+(.*?)(?=\n###|\Z)  of both heading patterns, tried at
\* position e: the whitespace run from e must hold a newline; \s* is greedy
\* and gives back to the run's last newline, which \n+ takes; the lazy group
\* stops before the first "\n###" or at the end of the text.
TailStart(text, e) ==
    LET w == SkipWhile(text, e, Spaces)
        nl == {k \in e..(w - 1) : text[k] = "\n"}
    IN  IF nl = {} THEN 0 ELSE Max(nl) + 1

TailGroup(text, start) ==
    LET stop == find(text, <<"\n","#","#","#">>, start, FALSE)
    IN  SubSeq(text, start, IF stop = 0 THEN Len(text) ELSE stop - 1)

RelationshipsTitle == <<"R","e","l","a","t","i","o","n","s","h","i","p","s"," ","a","n","d"," ","J","o","i","n"," ","L","o","g","i","c">>
ExplanationTitle == <<"B","r","i","e","f"," ","E","x","p","l","a","n","a","t","i","o","n">>

\* app.py:126-136  r'Relationships and Join Logic\s*\n+(.*?)(?=\n###|\Z)'
extract_relationships(text) ==
    LET hits == {i \in 1..Len(text) :
                    /\ MatchAt(text, i, RelationshipsTitle, TRUE)
                    /\ TailStart(text, i + Len(RelationshipsTitle)) # 0}
    IN  IF hits = {} THEN None
        ELSE Some(strip(TailGroup(text,
                 TailStart(text, Min(hits) + Len(RelationshipsTitle)))))

\* where the title must start for '###\s*\d*\.*\s*' matched from position i
AfterHeadingPrefix(text, i) ==
    SkipWhile(text,
        SkipWhile(text,
            SkipWhile(text,
                SkipWhile(text, i + 3, Spaces),
                DigitChars),
            {"."}),
        Spaces)

\* app.py:140-150
\* r'###\s*\d*\.*\s*Brief Explanation\s*\n+(.*?)(?=\n###|\Z)'
extract_explanation(text) ==
    LET titleAt(i) == AfterHeadingPrefix(text, i)
        hits == {i \in 1..Len(text) :
                    /\ MatchAt(text, i, <<"#","#","#">>, FALSE)
                    /\ MatchAt(text, titleAt(i), ExplanationTitle, TRUE)
                    /\ TailStart(text, titleAt(i) + Len(ExplanationTitle)) # 0}
    IN  IF hits = {} THEN None
        ELSE Some(strip(TailGroup(text,
                 TailStart(text, titleAt(Min(hits)) + Len(ExplanationTitle)))))

\* app.py:104-150: the five sections of ParsedSections
parse_response(text) ==
    [done |-> TRUE,
     summary |-> extract_summary(text),
     mermaid_code |-> extract_mermaid_code(text),
     sql_code |-> extract_sql_code(text),
     relationships |-> extract_relationships(text),
     explanation |-> extract_explanation(text)]

\* Python truthiness of an Optional[str]: neither None nor ""
Truthy(opt) == opt.some /\ opt.val # <<>>

----------------------------------------------------------------------------
(* llm_generator.py:14-20: the output structure the generation prompt asks *)
(* for, and the responses that follow it.                                  *)

NumSections == 6

PromptTitles ==
    << <<"D","a","t","a"," ","M","o","d","e","l"," ","S","u","m","m","a","r","y">>, <<"F","a","c","t"," ","a","n","d"," ","D","i","m","e","n","s","i","o","n"," ","T","a","b","l","e"," ","L","i","s","t">>,
       <<"E","R","D"," ","D","i","a","g","r","a","m">>, <<"S","n","o","w","f","l","a","k","e"," ","D","D","L">>,
       <<"R","e","l","a","t","i","o","n","s","h","i","p","s"," ","a","n","d"," ","J","o","i","n"," ","L","o","g","i","c">>, <<"B","r","i","e","f"," ","E","x","p","l","a","n","a","t","i","o","n">> >>

Digits == <<"0","1","2","3","4","5","6","7","8","9">>
ArabicIndicDigits ==
    <<"U+0660","U+0661","U+0662","U+0663","U+0664","U+0665","U+0666","U+0667","U+0668","U+0669">>

\* The prompt fixes the numbers, the titles, the sql fence tag and that the
\* diagram is in a code block.  What it leaves to the model:
\*   hashes   the heading line starts with "### " (a Markdown heading)
\*   bold     the title is written **Title**, as the prompt writes it
\*   tag      the tag of the diagram's fence: mermaid, MERMAID or none
\*   sqlTag   sql or SQL
\*   diagram  the diagram block has a body or is empty
\*   sections how many of the six sections the response holds
\*   eol      lines end with "\n" or with "\r\n"
\*   numerals the section numbers are ASCII or Arabic-Indic digits
Shapes(sectionCounts, eols, numerals) ==
    [sections : sectionCounts, hashes : BOOLEAN, bold : BOOLEAN,
     tag : {"mermaid", "MERMAID", "none"}, sqlTag : {"sql", "SQL"},
     diagram : {"full", "empty"}, eol : eols, numerals : numerals]

Eols == {"lf", "crlf"}
Numerals == {"ascii", "arabic-indic"}

Heading(sh, n) ==
    (IF sh.hashes THEN <<"#","#","#"," ">> ELSE <<>>)
    \o <<IF sh.numerals = "ascii" THEN Digits[n + 1]
                                   ELSE ArabicIndicDigits[n + 1]>>
    \o <<"."," ">>
    \o (IF sh.bold THEN <<"*","*">> \o PromptTitles[n] \o <<"*","*">> ELSE PromptTitles[n])
    \o <<"\n">>

DiagramBody == <<"e","r","D","i","a","g","r","a","m","\n"," ","A"," ","|","|","-","-","o","{"," ","B"," ",":"," ","h","a","s","\n">>

SectionBody(sh, n) ==
    CASE n = 1 -> <<"S","t","a","r"," ","s","c","h","e","m","a",".","\n","\n">>
      [] n = 2 -> <<"-"," ","F","A","C","T","_","A","\n","-"," ","D","I","M","_","B","\n","\n">>
      [] n = 3 -> Fence
                  \o (CASE sh.tag = "mermaid" -> TagMermaid \o <<"\n">>
                        [] sh.tag = "MERMAID" -> <<"M","E","R","M","A","I","D","\n">>
                        [] OTHER -> <<"\n">>)
                  \o (IF sh.diagram = "full" THEN DiagramBody ELSE <<>>)
                  \o Fence \o <<"\n","\n">>
      [] n = 4 -> Fence \o (IF sh.sqlTag = "sql" THEN TagSql ELSE <<"S","Q","L">>)
                  \o <<"\n","C","R","E","A","T","E"," ","T","A","B","L","E"," ","A"," ","(","I","D"," ","N","U","M","B","E","R",")",";","\n">> \o Fence \o <<"\n","\n">>
      [] n = 5 -> <<"A",".","I","D"," ","="," ","B",".","A","_","I","D","\n","\n">>
      [] OTHER -> <<"O","n","e"," ","f","a","c","t",","," ","o","n","e"," ","d","i","m","e","n","s","i","o","n",".","\n">>

RECURSIVE ToCrlf(_)
\* t with every line ending written "\r\n"
ToCrlf(t) ==
    IF t = <<>> THEN <<>>
    ELSE (IF Head(t) = "\n" THEN <<"\r","\n">> ELSE <<Head(t)>>) \o ToCrlf(Tail(t))

\* the lines of t with the line ending of the shape
Lines(sh, t) == IF sh.eol = "crlf" THEN ToCrlf(t) ELSE t

RECURSIVE RenderSections(_, _)
RenderSections(sh, n) ==
    IF n = 0 THEN <<>>
    ELSE RenderSections(sh, n - 1)
         \o Lines(sh, Heading(sh, n)) \o Lines(sh, SectionBody(sh, n))

\* the text of a response of shape sh
Render(sh) == RenderSections(sh, sh.sections)

----------------------------------------------------------------------------
(* app.py:152-192: the ER Diagram tab.                                     *)

\* the test of app.py:154 dropped: the validator is called on whatever
\* extract_mermaid_code returned
diagram_found_Always(code) == TRUE

\* app.py:154  if mermaid_code:
diagram_found(code) == Truthy(code)

\* app.py:159-188 once the validator has returned (is_valid, repaired_code,
\* error_msg): what the tab does with the diagram source it holds.
\*   to          "done": code view, render_mermaid_diagram and the HTML
\*               download get `source`;  "stopped": st.error and st.stop()
\*   repaired    the branch `mermaid_code = repaired_code` was taken
after_validation(code, v) ==
    LET is_valid == v[1]
        repaired_code == v[2]
    IN  IF is_valid
        THEN [to |-> "done", source |-> code, repaired |-> FALSE]
        ELSE IF Truthy(repaired_code)
             THEN [to |-> "done", source |-> repaired_code, repaired |-> TRUE]
             ELSE [to |-> "stopped", source |-> code, repaired |-> FALSE]

----------------------------------------------------------------------------
(* snowflake_utils.py:22-36: the cached metadata query.                    *)

\* @st.cache_data(ttl=300): seconds an entry is served
TTL == 300

\* the clock advances in steps of half the ttl
TickSeconds == TTL \div 2

\* the decorator without its ttl argument: a stored entry never expires
may_serve_NoExpiry(c, t) == IF c.some THEN {TRUE} ELSE {FALSE}

\* Whether a call at time t may be served from the cache entry c: yes while
\* the entry is younger than the ttl, no once it is older or when there is
\* none; at exactly ttl seconds either may happen.
may_serve(c, t) ==
    IF ~c.some THEN {FALSE}
    ELSE IF t - c.val.storedAt < TTL THEN {TRUE}
    ELSE IF t - c.val.storedAt > TTL THEN {FALSE}
    ELSE {TRUE, FALSE}

----------------------------------------------------------------------------
(* SpecValidate: validate_and_autocorrect_mermaid_code as a function of    *)
(* the diagram it is given and of the model's reply.                       *)

InitValidate ==
    /\ pc = "validate"
    /\ shape = NoShape
    /\ llm_output = None
    /\ parsed = NoParse
    /\ mermaid_code \in {Some(d) : d \in DiagramSources}
    /\ reply \in Replies(MaxReplyFragments)
    /\ result = NoResult
    /\ rendered = None
    /\ genCalls = 0
    /\ valCalls = 0
    /\ repairedBranch = FALSE
    /\ uncaught = None
    /\ CacheIdle

Validate ==
    /\ pc = "validate"
    /\ result' = validate_and_autocorrect_mermaid_code(mermaid_code, reply)
    /\ valCalls' = valCalls + 1
    /\ pc' = "returned"
    /\ uncaught' = IF result'.raised THEN Some(result'.exc) ELSE uncaught
    /\ UNCHANGED <<shape, llm_output, parsed, mermaid_code, reply, rendered,
                   genCalls, repairedBranch>>
    /\ UNCHANGED cacheVars

NextValidate == Validate

SpecValidate == InitValidate /\ [][NextValidate]_vars


----------------------------------------------------------------------------
(* Claims about the validator, checked under SpecValidate.                 *)

OpenMermaid == Fence \o TagMermaid \o <<"\n">>

\* the literal p stands in t at position i
At(t, i, p) ==
    /\ i + Len(p) - 1 <= Len(t)
    /\ t[i] = p[1]
    /\ SubSeq(t, i, i + Len(p) - 1) = p

\* closing fences that end a block opened at i
Closings(t, i) ==
    {j \in (i + Len(OpenMermaid))..Len(t) : At(t, j, Fence)}

\* opening fences of t that are closed: the fenced mermaid blocks
Openings(t) ==
    {i \in 1..Len(t) : At(t, i, OpenMermaid) /\ Closings(t, i) # {}}

HasMermaidBlock(t) == Openings(t) # {}

\* the content of the first block: leftmost opening, nearest closing
FirstBlockBody(t) ==
    LET i == Min(Openings(t))
        j == Min(Closings(t, i))
    IN  SubSeq(t, i + Len(OpenMermaid), j - 1)

\* a letter without its case: the small letter of a capital
SmallLetter(c) == IF c \in DOMAIN AsciiLower THEN AsciiLower[c] ELSE c

\* the word w is written in t at position i, in any case
WrittenAt(t, i, w) ==
    /\ i >= 1
    /\ i + Len(w) - 1 <= Len(t)
    /\ \A k \in 1..Len(w) : SmallLetter(t[i + k - 1]) = w[k]

\* positions where "valid" occurs in t, in any case
ValidAt(t) == {i \in 1..Len(t) : WrittenAt(t, i, Valid)}

Returned == pc = "returned" /\ ~result.raised

\* C1: the validator classifies the reply in strict priority order: a fenced
\* mermaid block gives repairedSource = the trimmed content of the first such
\* block; otherwise "valid" anywhere (any case) gives (true, the input
\* unchanged, no error); otherwise (false, no source, an error message).
C1_PriorityOrder ==
    (pc = "returned" /\ reply.kind = "ok") =>
        /\ ~result.raised
        /\ LET t == reply.text
               v == result.value
           IN  IF HasMermaidBlock(t)
               THEN v[2] = Some(strip(FirstBlockBody(t)))
               ELSE IF ValidAt(t) # {}
                    THEN v = <<TRUE, mermaid_code, None>>
                    ELSE v[1] = FALSE /\ v[2] = None /\ v[3] # None

\* a reply holding both a block and the word: the block wins
C1_Witness ==
    /\ Returned
    /\ reply.kind = "ok"
    /\ HasMermaidBlock(reply.text)
    /\ ValidAt(reply.text) # {}
    /\ result.value[2] = Some(strip(FirstBlockBody(reply.text)))
    /\ result.value[2] # mermaid_code

\* C3: a failure of the validator's model call, or of reading the response
\* text, is returned as (false, no source, description); nothing escapes.
C3_FailureCaught ==
    (pc = "returned" /\ reply.kind # "ok") =>
        /\ ~result.raised
        /\ result.value = <<FALSE, None, Some(reply.err)>>
        /\ uncaught = None

C3_Witness ==
    /\ Returned
    /\ reply.kind = "text_raises"
    /\ result.value = <<FALSE, None, Some("timeout")>>

\* t with the tag of every mermaid fence, whatever its case, in lower case
LowerTags(t) ==
    [k \in 1..Len(t) |->
        IF \E i \in 1..Len(t) :
              /\ WrittenAt(t, i, OpenMermaid)
              /\ k \in (i + Len(Fence))..(i + Len(Fence) + Len(TagMermaid) - 1)
        THEN SmallLetter(t[k]) ELSE t[k]]

\* C7: a fence tagged MERMAID is extracted exactly as one tagged mermaid,
\* by extract_mermaid_code and by the validator's own block extraction.
C7_TagCaseInsensitive ==
    (pc = "returned" /\ reply.kind = "ok") =>
        /\ extract_mermaid_code(reply.text)
              = extract_mermaid_code(LowerTags(reply.text))
        /\ result = validate_and_autocorrect_mermaid_code(
                        mermaid_code, OkReply(LowerTags(reply.text)))

\* C9: no fenced block, and "valid" occurs only inside "invalid": the
\* reply does not affirm validity, so the result is a failure.
C9_InvalidIsNotValid ==
    (/\ pc = "returned"
     /\ reply.kind = "ok"
     /\ ~HasMermaidBlock(reply.text)
     /\ ValidAt(reply.text) # {}
     /\ \A i \in ValidAt(reply.text) :
           WrittenAt(reply.text, i - 2, <<"i","n">>))
    => /\ ~result.raised
       /\ result.value[1] = FALSE
       /\ result.value[2] = None
       /\ result.value[3] # None
----------------------------------------------------------------------------
(* SpecParse: the parsing code of the handler as a function of the         *)
(* generation response.                                                    *)

InitParse ==
    /\ pc = "parse"
    /\ shape \in Shapes(0..NumSections, Eols, Numerals)
    /\ llm_output = Some(Render(shape))
    /\ parsed = NoParse
    /\ mermaid_code = None
    /\ reply = None
    /\ result = NoResult
    /\ rendered = None
    /\ genCalls = 1
    /\ valCalls = 0
    /\ repairedBranch = FALSE
    /\ uncaught = None
    /\ CacheIdle

Parse ==
    /\ pc = "parse"
    /\ parsed' = parse_response(llm_output.val)
    /\ mermaid_code' = parsed'.mermaid_code
    /\ pc' = "parsed"
    /\ UNCHANGED <<shape, llm_output, reply, result, rendered, genCalls,
                   valCalls, repairedBranch, uncaught>>
    /\ UNCHANGED cacheVars

NextParse == Parse

SpecParse == InitParse /\ [][NextParse]_vars

\* a response holding all six sections the prompt asks for, numbered as the
\* prompt numbers them, lines ending with "\n", the diagram block not empty
WellFormed(sh) ==
    /\ sh.sections = NumSections
    /\ sh.diagram = "full"
    /\ sh.eol = "lf"
    /\ sh.numerals = "ascii"

\* C6: from every well-formed six-section response the parser extracts all
\* five fields, none absent.
C6_AllFieldsExtracted ==
    (pc = "parsed" /\ WellFormed(shape)) =>
        /\ parsed.summary # <<>>
        /\ Truthy(parsed.mermaid_code)
        /\ Truthy(parsed.sql_code)
        /\ parsed.relationships # None
        /\ parsed.explanation # None

----------------------------------------------------------------------------
(* SpecCache: calls of extract_table_metadata_cached over time, against a  *)
(* database whose content changes and which may be unreachable.  A call    *)
(* that misses the cache blocks in the connection and in the query, and    *)
(* the clock and the database move on meanwhile.                           *)

InitCache ==
    /\ pc = "cache"
    /\ FlowIdle
    /\ CacheIdle

Tick ==
    /\ now < MaxTicks * TickSeconds
    /\ now' = now + TickSeconds
    /\ UNCHANGED <<pc, cache, dbVersion, dbUp, queries, fetches, returned,
                   lastQueryAt, lastFetch, df, openConns>>
    /\ UNCHANGED flowData

\* a table or a column is added or dropped in the schema
DbChanges ==
    /\ dbVersion < MaxDbVersion
    /\ dbVersion' = dbVersion + 1
    /\ UNCHANGED <<pc, now, cache, dbUp, queries, fetches, returned,
                   lastQueryAt, lastFetch, df, openConns>>
    /\ UNCHANGED flowData

\* the database becomes unreachable, or reachable again
DbAvailability ==
    /\ dbUp' = ~dbUp
    /\ UNCHANGED <<pc, now, cache, dbVersion, queries, fetches, returned,
                   lastQueryAt, lastFetch, df, openConns>>
    /\ UNCHANGED flowData

\* where the call stands with respect to the last stored result
Window(t) ==
    IF ~lastQueryAt.some THEN "none"
    ELSE IF t - lastQueryAt.val < TTL THEN "inside"
    ELSE IF t - lastQueryAt.val > TTL THEN "expired"
    ELSE "edge"

\* extract_table_metadata_cached is called by the script at app.py:79
\* (position "load") and, in SpecCache, by a caller that does nothing else
\* (position "cache")
CallSites == {"load", "cache"}

\* where the caller goes on when the call returns: app.py:80-92, or the next
\* call
OnReturn(site) == IF site = "load" THEN "loaded" ELSE "cache"

\* where the caller goes on when the call raises: app.py:82-84 (st.error,
\* st.stop), or the next call
OnRaise(site) == IF site = "load" THEN "load_failed" ELSE "cache"

\* what is noted when a call begins
Begin(hit) ==
    [site |-> pc, at |-> now, hit |-> hit, window |-> Window(now),
     queries0 |-> queries, returned0 |-> returned, connected |-> FALSE]

\* snowflake_utils.py:34-36 with a live entry: the stored rows are returned
FetchHit ==
    /\ pc \in CallSites
    /\ pc' = OnReturn(pc)
    /\ fetches < MaxFetches
    /\ TRUE \in may_serve(cache, now)
    /\ fetches' = fetches + 1
    /\ returned' = Some(cache.val.value)
    /\ lastFetch' = Some(Begin(TRUE))
    /\ UNCHANGED <<now, cache, dbVersion, dbUp, queries, lastQueryAt, df,
                   openConns>>
    /\ UNCHANGED flowData

\* snowflake_utils.py:34-36 with no live entry: extract_table_metadata
\* (22-32) is called; an entry past its ttl is dropped
FetchMiss ==
    /\ pc \in CallSites
    /\ fetches < MaxFetches
    /\ FALSE \in may_serve(cache, now)
    /\ fetches' = fetches + 1
    /\ cache' = None
    /\ lastFetch' = Some(Begin(FALSE))
    /\ pc' = "connecting"
    /\ UNCHANGED <<now, dbVersion, dbUp, queries, returned, lastQueryAt, df,
                   openConns>>
    /\ UNCHANGED flowData

\* snowflake_utils.py:29: the connection is opened, or get_snowflake_connection
\* raises: no query is issued, nothing is stored, and the caller gets the
\* exception
Connect ==
    /\ pc = "connecting"
    /\ IF dbUp
       THEN /\ pc' = "querying"
            /\ openConns' = openConns + 1
            /\ lastFetch' = Some([lastFetch.val EXCEPT !.connected = TRUE])
            /\ UNCHANGED returned
       ELSE /\ pc' = OnRaise(lastFetch.val.site)
            /\ returned' = None
            /\ UNCHANGED <<openConns, lastFetch>>
    /\ UNCHANGED <<now, cache, dbVersion, dbUp, queries, fetches, lastQueryAt,
                   df>>
    /\ UNCHANGED flowData

\* snowflake_utils.py:30: pd.read_sql issues the bulk query and reads the
\* rows the schema holds now, or raises: conn.close() on line 31 is then not
\* reached, nothing is stored, and the caller gets the exception
Query ==
    /\ pc = "querying"
    /\ queries' = queries + 1
    /\ IF dbUp
       THEN /\ pc' = "closing"
            /\ df' = Some(dbVersion)
            /\ UNCHANGED returned
       ELSE /\ pc' = OnRaise(lastFetch.val.site)
            /\ returned' = None
            /\ UNCHANGED df
    /\ UNCHANGED <<now, cache, dbVersion, dbUp, fetches, lastQueryAt,
                   lastFetch, openConns>>
    /\ UNCHANGED flowData

\* snowflake_utils.py:31-32,36: the connection is closed and the rows are
\* returned; the decorator stores them with the time of the store
CloseAndStore ==
    /\ pc = "closing"
    /\ openConns' = openConns - 1
    /\ cache' = Some([value |-> df.val, storedAt |-> now])
    /\ returned' = df
    /\ lastQueryAt' = Some(now)
    /\ df' = None
    /\ pc' = OnReturn(lastFetch.val.site)
    /\ UNCHANGED <<now, dbVersion, dbUp, queries, fetches, lastFetch>>
    /\ UNCHANGED flowData

NextCache ==
    \/ Tick
    \/ DbChanges
    \/ DbAvailability
    \/ FetchHit
    \/ FetchMiss
    \/ Connect
    \/ Query
    \/ CloseAndStore

SpecCache == InitCache /\ [][NextCache]_vars

\* the last call has returned or raised
FetchDone == pc = "cache" /\ lastFetch.some

\* a call begun inside the window of the last stored result issues no query
\* and returns what the call before it returned
InsideWindowServed ==
    (FetchDone /\ lastFetch.val.window = "inside") =>
        /\ queries = lastFetch.val.queries0
        /\ returned.some
        /\ returned = lastFetch.val.returned0

\* a result stored by the last call opened a new window, and it is the
\* result the call returned
StoredOpensWindow ==
    (FetchDone /\ ~lastFetch.val.hit /\ returned.some) =>
        /\ lastQueryAt.some
        /\ lastQueryAt.val >= lastFetch.val.at
        /\ cache = Some([value |-> returned.val, storedAt |-> lastQueryAt.val])

\* C8 as stated: two fetches within the expiry window return identical data
\* and issue no second query; a fetch after the entry has expired triggers
\* exactly one new query, whose result then serves later fetches inside the
\* new window.
C8_ExactlyOneQueryAfterExpiry ==
    /\ InsideWindowServed
    /\ StoredOpensWindow
    /\ (FetchDone /\ lastFetch.val.window = "expired") =>
           queries = lastFetch.val.queries0 + 1

\* C8: a fetch begun less than the ttl after the last result was stored
\* issues no query and returns the same data as the fetch before it; a fetch
\* begun more than the ttl after it issues exactly one query when the
\* connection can be opened, and when it cannot the fetch fails with no
\* query issued and nothing cached; a result that is stored opens a new
\* window.
C8_CacheWindow ==
    /\ InsideWindowServed
    /\ StoredOpensWindow
    /\ (FetchDone /\ lastFetch.val.window = "expired") =>
           IF lastFetch.val.connected
           THEN queries = lastFetch.val.queries0 + 1
           ELSE /\ ~lastFetch.val.hit
                /\ queries = lastFetch.val.queries0
                /\ returned = None
                /\ cache = None

\* after a re-query on expiry, a later fetch inside the new window is served
\* the re-queried rows although the database has changed since
C8_Witness ==
    /\ FetchDone
    /\ queries = 2
    /\ fetches >= 3
    /\ lastQueryAt.some
    /\ lastQueryAt.val >= TTL
    /\ lastFetch.val.hit
    /\ lastFetch.val.window = "inside"
    /\ lastFetch.val.at > lastQueryAt.val
    /\ returned.some
    /\ returned.val # dbVersion
----------------------------------------------------------------------------
(* Spec: runs of the script (app.py:74-197).  Each run loads the metadata  *)
(* through the cache, draws the sidebar and, when the button was pressed,  *)
(* runs the handler, split where the script waits for the model.           *)

FlowReplyFragments ==
    { Fence \o TagMermaid \o <<"\n","e","r","D","i","a","g","r","a","m","\r","\n"," ","B","\r","\n">> \o Fence,
      Fence \o TagMermaid \o <<"\n">> \o DiagramBody \o Fence,
      Fence \o <<"M","E","R","M","A","I","D","\n","e","r","D","i","a","g","r","a","m","\n"," ","B","\n">> \o Fence,
      <<"T","h","i","s"," ","i","s"," ","v","a","l","i","d",".">>, <<"T","h","e"," ","d","i","a","g","r","a","m"," ","i","s"," ","i","n","v","a","l","i","d",".">>,
      <<"I"," ","c","a","n","n","o","t"," ","p","a","r","s","e"," ","t","h","i","s",".">>, <<"U+00A0"," ","\r","\n">> }

FlowReplies ==
    {OkReply(t) : t \in Texts(FlowReplyFragments, MaxFlowReplyFragments)}
    \cup FailedReplies

\* responses with no diagram section, ending with it, and complete
FlowSectionCounts == {2, 3, NumSections}

\* script runs Spec follows
MaxRuns == 2

\* the first run of the script starts: nothing loaded, the cache empty
Init ==
    /\ pc = "load"
    /\ FlowIdle
    /\ CacheIdle

\* app.py:85-92: the metadata is loaded and the sidebar is drawn; with no
\* table selected the run ends in st.warning and st.stop()
SidebarInputs ==
    \E selected \in BOOLEAN :
        /\ pc = "loaded"
        /\ pc' = IF selected THEN "idle" ELSE "no_selection"
        /\ UNCHANGED flowData
        /\ UNCHANGED cacheVars

\* app.py:96: the button was not pressed in this run; the run ends with
\* the page drawn and no model call
NoClick ==
    /\ pc = "idle"
    /\ pc' = "waiting"
    /\ UNCHANGED flowData
    /\ UNCHANGED cacheVars

\* app.py:96-100: the button was pressed; the handler calls
\* generate_data_model, which makes its one model call (llm_generator.py:34)
ClickGenerate ==
    /\ pc = "idle"
    /\ pc' = "generating"
    /\ genCalls' = genCalls + 1
    /\ UNCHANGED <<shape, llm_output, parsed, mermaid_code, reply, result,
                   rendered, valCalls, repairedBranch, uncaught>>
    /\ UNCHANGED cacheVars

\* llm_generator.py:34-35 returns; app.py:102-157: the sections are
\* extracted and shown, and the ER Diagram tab calls the validator if a
\* diagram was found, else shows "Mermaid diagram not found"
GenerationResponds ==
    \E sh \in Shapes(FlowSectionCounts, Eols, {"ascii"}) :
        /\ pc = "generating"
        /\ shape' = sh
        /\ llm_output' = Some(Render(sh))
        /\ parsed' = parse_response(Render(sh))
        /\ mermaid_code' = parsed'.mermaid_code
        /\ IF diagram_found(mermaid_code')
           THEN pc' = "validating" /\ valCalls' = valCalls + 1
           ELSE pc' = "done" /\ valCalls' = valCalls
        /\ UNCHANGED <<reply, result, rendered, genCalls, repairedBranch,
                       uncaught>>
        /\ UNCHANGED cacheVars

\* llm_generator.py:34-35 raises: generate_data_model has no handler and
\* app.py:100 is not inside a try, so the exception leaves the script
GenerationRaises ==
    \E e \in ErrorTexts :
        /\ pc = "generating"
        /\ uncaught' = Some(e)
        /\ pc' = "crashed"
        /\ UNCHANGED <<shape, llm_output, parsed, mermaid_code, reply, result,
                       rendered, genCalls, valCalls, repairedBranch>>
        /\ UNCHANGED cacheVars

\* app.py:157-192: the validator returns and the tab finishes
ValidationCompletes ==
    \E r \in FlowReplies :
        /\ pc = "validating"
        /\ reply' = r
        /\ result' = validate_and_autocorrect_mermaid_code(mermaid_code, r)
        /\ IF result'.raised
           THEN /\ uncaught' = Some(result'.exc)
                /\ pc' = "crashed"
                /\ UNCHANGED <<mermaid_code, rendered, repairedBranch>>
           ELSE LET tab == after_validation(mermaid_code, result'.value)
                IN  /\ pc' = tab.to
                    /\ mermaid_code' = tab.source
                    /\ rendered' = IF tab.to = "done" THEN tab.source ELSE None
                    /\ repairedBranch' = tab.repaired
                    /\ UNCHANGED uncaught
        /\ UNCHANGED <<shape, llm_output, parsed, genCalls, valCalls>>
        /\ UNCHANGED cacheVars

\* the next interaction runs the script again from the top; the cache
\* outlives the run
Rerun ==
    /\ pc \in {"done", "stopped", "crashed", "waiting", "load_failed",
               "no_selection"}
    /\ fetches < MaxRuns
    /\ pc' = "load"
    /\ shape' = NoShape
    /\ llm_output' = None
    /\ parsed' = NoParse
    /\ mermaid_code' = None
    /\ reply' = None
    /\ result' = NoResult
    /\ rendered' = None
    /\ genCalls' = 0
    /\ valCalls' = 0
    /\ repairedBranch' = FALSE
    /\ uncaught' = None
    /\ UNCHANGED cacheVars

\* Spec follows a session shorter than the ttl over a schema that does not
\* change: the clock and the schema are followed in SpecCache.
Next ==
    \/ DbAvailability
    \/ FetchHit
    \/ FetchMiss
    \/ Connect
    \/ Query
    \/ CloseAndStore
    \/ SidebarInputs
    \/ NoClick
    \/ ClickGenerate
    \/ GenerationResponds
    \/ GenerationRaises
    \/ ValidationCompletes
    \/ Rerun

Spec == Init /\ [][Next]_vars

----------------------------------------------------------------------------
(* Claims about the handler, checked under Spec.                           *)

ValidatorReturned == result # NoResult /\ ~result.raised

\* C2: when the validator's reply supplies a fenced diagram block, the
\* source handed to rendering is the repaired source the validator returned.
C2_RepairedIsRendered ==
    (/\ pc = "done"
     /\ ValidatorReturned
     /\ reply.kind = "ok"
     /\ HasMermaidBlock(reply.text))
    => rendered = result.value[2]

\* C4: a failed generation call does not leave the script as an exception;
\* the run ends with the sections' placeholders shown.
C4_GenerationFailureContained ==
    (genCalls = 1 /\ pc # "generating" /\ llm_output = None)
    => (uncaught = None /\ pc = "done" /\ rendered = None)

\* the diagram's state in the caller
DiagramState ==
    IF ~parsed.done \/ ~Truthy(parsed.mermaid_code) THEN "Absent"
    ELSE IF result = NoResult THEN "Unvalidated"
    ELSE IF result.raised \/ pc = "stopped" THEN "Failed"
    ELSE IF reply.kind = "ok" /\ HasMermaidBlock(reply.text) THEN "Repaired"
    ELSE "Valid"

\* C5: in one run the validator is called at most once, only after the one
\* generation call has returned and been parsed with a diagram extracted;
\* a Valid, Repaired or Failed diagram is never validated again, so a run
\* makes at most two model calls.
C5_ValidatedAtMostOnce ==
    [][ /\ genCalls' <= 1
        /\ valCalls' <= 1
        /\ genCalls' + valCalls' <= 2
        /\ valCalls' > valCalls =>
              /\ genCalls' = 1
              /\ parsed'.done
              /\ Truthy(parsed'.mermaid_code)
              /\ DiagramState' = "Unvalidated"
        /\ DiagramState = "Unvalidated" =>
              DiagramState' \in {"Unvalidated", "Valid", "Repaired", "Failed", "Absent"}
        /\ DiagramState \in {"Valid", "Repaired", "Failed"} =>
              (valCalls' = valCalls /\ DiagramState' = DiagramState) \/ pc' = "load"
      ]_vars

\* a repaired diagram was rendered after one generation and one validation
C5_Witness ==
    /\ pc = "done"
    /\ DiagramState = "Repaired"
    /\ genCalls = 1
    /\ valCalls = 1

\* C10: every result of the validator has isValid = true iff repairedSource
\* is present iff errorMessage is absent, and the caller's branch for
\* "invalid but repaired" (app.py:163-165) is never entered.
C10_ResultShape ==
    /\ ValidatorReturned =>
          LET v == result.value
          IN  /\ (v[1] = TRUE) <=> (v[2] # None)
              /\ (v[1] = TRUE) <=> (v[3] = None)
    /\ ~repairedBranch

\* a failed validation: st.error and st.stop(), nothing rendered
C10_Witness ==
    /\ pc = "stopped"
    /\ ValidatorReturned
    /\ result.value = <<FALSE, None, Some(CouldNotExtract)>>
    /\ rendered = None

====
